---- MODULE Spec2Model ----
(***************************************************************************)
(* interview-slot-suggester: a model of src/main.rs.                       *)
(*                                                                         *)
(* One run of main(): the timezone is parsed, the calendar files are read  *)
(* one after the other and their events collected as busy intervals, the   *)
(* 30-minute grid is walked and every slot without a conflict is scored    *)
(* and kept, the candidates are sorted, and the first five are printed.    *)
(*                                                                         *)
(* Instants are whole seconds since 1970-01-01T00:00:00Z (the clock's      *)
(* sub-second part is taken to be zero).  A string is a sequence of        *)
(* characters, a character a token with a UTF-8 width, so that the byte    *)
(* offsets parse_ics_datetime slices at mean what they mean in Rust.       *)
(***************************************************************************)
EXTENDS Integers, Sequences, FiniteSets

\* ------------------------------------------------------------------ bounds

\* Events read from all the files of one run.
MaxEvents == 2
\* Calendar files on the command line.
MaxFiles == 2
\* Calendars parsed out of one file.
MaxCalendars == 1

\* ------------------------------------------------------- program constants

SlotMinutes == 30
TopN == 5
MorningFrom == 9
MorningTo == 12
IcsBodyLen == 15

SecsPerMin == 60
SecsPerHour == 60 * SecsPerMin
SecsPerDay == 24 * SecsPerHour

\* ----------------------------------------------------------------- strings

Digits == <<"0", "1", "2", "3", "4", "5", "6", "7", "8", "9">>

IsDigit(c) == \E n \in 1..10 : Digits[n] = c

DigitVal(c) == (CHOOSE n \in 1..10 : Digits[n] = c) - 1

\* The one non-ASCII character of the model, U+00E9, two bytes in UTF-8.
EAcute == "U+00E9"

Utf8Len(c) == IF c = EAcute THEN 2 ELSE 1

RECURSIVE ByteLen(_)
\* str::len(): the length in bytes.
ByteLen(s) == IF s = <<>> THEN 0 ELSE Utf8Len(Head(s)) + ByteLen(Tail(s))

\* str::is_char_boundary(i).
IsCharBoundary(s, i) == \E k \in 0..Len(s) : ByteLen(SubSeq(s, 1, k)) = i

\* &s[a..b] for a and b on character boundaries.
ByteSlice(s, a, b) ==
    LET ka == CHOOSE k \in 0..Len(s) : ByteLen(SubSeq(s, 1, k)) = a
        kb == CHOOSE k \in 0..Len(s) : ByteLen(SubSeq(s, 1, k)) = b
    IN  SubSeq(s, ka + 1, kb)

\* str::ends_with('Z').
EndsWithZ(s) == Len(s) > 0 /\ s[Len(s)] = "Z"

AllDigits(s) == \A i \in 1..Len(s) : IsDigit(s[i])

RECURSIVE Number(_)
Number(s) == IF s = <<>> THEN 0 ELSE 10 * Number(SubSeq(s, 1, Len(s) - 1)) + DigitVal(s[Len(s)])

\* ------------------------------------------------------------------- dates

IsLeap(y) == (y % 4 = 0 /\ y % 100 # 0) \/ y % 400 = 0

DaysInMonth(y, m) ==
    IF m = 2 THEN (IF IsLeap(y) THEN 29 ELSE 28)
    ELSE IF m \in {4, 6, 9, 11} THEN 30 ELSE 31

\* Days from 1970-01-01 to the civil date y-m-d (proleptic Gregorian).
DaysFromCivil(y, m, d) ==
    LET yy == IF m <= 2 THEN y - 1 ELSE y
        era == yy \div 400
        yoe == yy - era * 400
        mp == IF m > 2 THEN m - 3 ELSE m + 9
        doy == (153 * mp + 2) \div 5 + d - 1
        doe == yoe * 365 + yoe \div 4 - yoe \div 100 + doy
    IN  era * 146097 + doe - 719468

Instant(y, m, d, h, mi, s) ==
    DaysFromCivil(y, m, d) * SecsPerDay + h * SecsPerHour + mi * SecsPerMin + s

\* NaiveDateTime::date(), as a day number.
DateOf(t) == t \div SecsPerDay

\* NaiveDate::and_hms_opt(h, m, s).unwrap_or(default).
AndHmsOr(day, h, m, s, default) ==
    IF h < 24 /\ m < 60 /\ s < 60
    THEN day * SecsPerDay + h * SecsPerHour + m * SecsPerMin + s
    ELSE default

None == [some |-> FALSE]
Some(v) == [some |-> TRUE, val |-> v]
Panic == [some |-> FALSE, panic |-> TRUE]
IsPanic(r) == "panic" \in DOMAIN r

\* DateTime::parse_from_rfc3339 of "{year}-{month}-{day}T{hour}:{min}:{sec}Z".
\* (A leap second, sec = 60, which chrono also accepts, is not among the inputs.)
ParseRfc3339(year, month, day, hour, min, sec) ==
    IF /\ Len(year) = 4 /\ Len(month) = 2 /\ Len(day) = 2
       /\ Len(hour) = 2 /\ Len(min) = 2 /\ Len(sec) = 2
       /\ AllDigits(year \o month \o day \o hour \o min \o sec)
       /\ Number(month) \in 1..12
       /\ Number(day) \in 1..DaysInMonth(Number(year), Number(month))
       /\ Number(hour) < 24 /\ Number(min) < 60 /\ Number(sec) < 60
    THEN Some(Instant(Number(year), Number(month), Number(day),
                      Number(hour), Number(min), Number(sec)))
    ELSE None

\* The byte offsets parse_ics_datetime slices the 15-byte body at.
SliceOffsets == {0, 4, 6, 8, 9, 11, 13, 15}

\* parse_ics_datetime: Some(instant), None, or the panic of a slice that does
\* not fall on a character boundary.
parse_ics_datetime(s) ==
    IF ~EndsWithZ(s) THEN None
    ELSE LET without_z == SubSeq(s, 1, Len(s) - 1)
         IN  IF ByteLen(without_z) # IcsBodyLen THEN None
             ELSE IF \E i \in SliceOffsets : ~IsCharBoundary(without_z, i) THEN Panic
             ELSE ParseRfc3339(ByteSlice(without_z, 0, 4), ByteSlice(without_z, 4, 6),
                               ByteSlice(without_z, 6, 8), ByteSlice(without_z, 9, 11),
                               ByteSlice(without_z, 11, 13), ByteSlice(without_z, 13, 15))

\* --------------------------------------------------------------- timezones

\* The IANA identifiers chrono_tz knows, as far as the inputs go.
KnownTimezones == {"UTC", "America/New_York"}

\* Tz::from_str.
TzFromStr(name) == IF name \in KnownTimezones THEN Some(name) ELSE None

\* America/New_York in 2026: daylight time from 8 March 07:00Z to 1 November 06:00Z.
NewYorkDstFrom == Instant(2026, 3, 8, 7, 0, 0)
NewYorkDstTo == Instant(2026, 11, 1, 6, 0, 0)

\* The offset from UTC, in seconds, that timezone tz has at instant t.
UtcOffset(tz, t) ==
    IF tz = "America/New_York"
    THEN (IF NewYorkDstFrom <= t /\ t < NewYorkDstTo THEN -4 * SecsPerHour ELSE -5 * SecsPerHour)
    ELSE 0

\* Utc.from_utc_datetime(&t).with_timezone(&tz).hour().
LocalHour(tz, t) == ((t + UtcOffset(tz, t)) % SecsPerDay) \div SecsPerHour

\* ------------------------------------------------------------------ inputs

Pad2(n) == <<Digits[(n \div 10) + 1], Digits[(n % 10) + 1]>>
Pad4(n) == Pad2(n \div 100) \o Pad2(n % 100)

\* A timestamp in the floating form, YYYYMMDDTHHMMSS.
IcsLocal(y, m, d, h, mi, s) ==
    Pad4(y) \o Pad2(m) \o Pad2(d) \o <<"T">> \o Pad2(h) \o Pad2(mi) \o Pad2(s)

\* A timestamp in the form the extractor reads, YYYYMMDDTHHMMSSZ.
IcsUtc(y, m, d, h, mi, s) == IcsLocal(y, m, d, h, mi, s) \o <<"Z">>

\* A property an event does not carry.
Absent == None

\* The VEVENTs the calendars are made of: DTSTART and DTEND, each a value or absent.
Event(dtstart, dtend) == [dtstart |-> dtstart, dtend |-> dtend]

\* 09:00-09:30 on the first search day.
EvMorning == Event(Some(IcsUtc(2026, 10, 31, 9, 0, 0)), Some(IcsUtc(2026, 10, 31, 9, 30, 0)))
\* DTEND before DTSTART.
EvReversed == Event(Some(IcsUtc(2026, 10, 31, 17, 30, 0)), Some(IcsUtc(2026, 10, 31, 17, 0, 0)))
\* Five days, covering every search window of the model.
EvLong == Event(Some(IcsUtc(2026, 10, 30, 0, 0, 0)), Some(IcsUtc(2026, 11, 4, 0, 0, 0)))
\* Floating start, and an end that is too short.
EvFloating == Event(Some(IcsLocal(2026, 10, 31, 10, 0, 0)), Some(Pad4(2026) \o Pad2(10) \o Pad2(31) \o <<"Z">>))
\* No DTEND.
EvNoEnd == Event(Some(IcsUtc(2026, 10, 31, 10, 0, 0)), Absent)
\* Month 13.
EvBadMonth == Event(Some(IcsUtc(2026, 13, 31, 10, 0, 0)), Some(IcsUtc(2026, 10, 31, 11, 0, 0)))
\* A 15-byte start whose fourth and fifth bytes are one character.
EvMultibyte == Event(Some(<<"2", "0", "2", EAcute, "0", "3", "1", "T">> \o Pad2(10) \o Pad2(0) \o Pad2(0) \o <<"Z">>),
                     Some(IcsUtc(2026, 10, 31, 11, 0, 0)))

EventSamples == {EvMorning, EvReversed, EvLong, EvFloating, EvNoEnd, EvBadMonth, EvMultibyte}

\* Utc::now(): early morning and mid afternoon of 30 October 2026.
NowSamples == {Instant(2026, 10, 30, 6, 30, 0), Instant(2026, 10, 30, 15, 0, 0)}

\* --days-ahead, --start-hour, --end-hour: the default hours over one day and
\* over two, an afternoon start, a window that runs through the night, an end
\* before the start, and hours that are no hours of the day.
WindowSamples == {<<0, 9, 18>>, <<1, 9, 18>>, <<0, 13, 18>>, <<1, 22, 9>>, <<0, 9, 8>>,
                  <<0, 9, 24>>, <<0, 24, 24>>}
BufferSamples == {0, 30}
TimezoneSamples == KnownTimezones \cup {"Mars/Olympus"}

\* ------------------------------------------------------------------- state

VARIABLES
    pc,          \* where main() is
    args,        \* the parsed command line
    now,         \* Utc::now() of line 66
    files,       \* the files touched so far, each "ok", "unopenable" or "malformed"
    calendars,   \* calendars parsed out of the file being read
    nread,       \* events read so far, from all files
    event,       \* the event the loop of line 80 is at
    parsed,      \* the intervals of all events read whose two timestamps parsed
    events,      \* the collected busy intervals
    current,     \* the slot loop's variable
    grid,        \* the values `current` has had in the loop's body
    candidates,  \* the free slots, with their scores
    output,      \* the table rows printed
    message,     \* what was printed: "", "none" or "table"
    error        \* "" or what ended the run

vars == <<pc, args, now, files, calendars, nread, event, parsed, events, current, grid,
          candidates, output, message, error>>

Args == {[ics_files |-> n, days_ahead |-> w[1], start_hour |-> w[2], end_hour |-> w[3],
          buffer_mins |-> b, timezone |-> z] :
            n \in 1..MaxFiles, w \in WindowSamples, b \in BufferSamples, z \in TimezoneSamples}

Init ==
    /\ pc = "tz"
    /\ args \in Args
    /\ now \in NowSamples
    /\ files = <<>>
    /\ calendars = 0
    /\ nread = 0
    /\ event = None
    /\ parsed = <<>>
    /\ events = <<>>
    /\ current = 0
    /\ grid = <<>>
    /\ candidates = <<>>
    /\ output = <<>>
    /\ message = ""
    /\ error = ""

\* ------------------------------------------------------------ search window

\* Lines 67-69.
start_search == now + SecsPerDay
end_search ==
    AndHmsOr(DateOf(start_search + args.days_ahead * SecsPerDay), args.end_hour, 59, 59, now)
\* Line 103.
slot_duration == SlotMinutes * SecsPerMin

\* ------------------------------------------------------------------ actions

\* Line 63: the timezone is parsed before anything else.
ParseTimezone ==
    /\ pc = "tz"
    /\ IF TzFromStr(args.timezone).some
       THEN pc' = "open" /\ error' = error
       ELSE pc' = "failed" /\ error' = "InvalidTimezone"
    /\ UNCHANGED <<args, now, files, calendars, nread, event, parsed, events, current, grid,
                   candidates, output, message>>

\* OpenFile that goes on to the next file when one cannot be opened.
OpenFileSkipping ==
    /\ pc = "open"
    /\ Len(files) < args.ics_files
    /\ \E opens \in BOOLEAN :
        IF opens
        THEN /\ files' = Append(files, "ok")
             /\ pc' = "calendar"
        ELSE /\ files' = Append(files, "unopenable")
             /\ pc' = "open"
    /\ calendars' = 0
    /\ UNCHANGED <<args, now, nread, event, parsed, events, current, grid, candidates,
                   output, message, error>>

\* Lines 73-76: the next file is opened.
OpenFile ==
    /\ pc = "open"
    /\ Len(files) < args.ics_files
    /\ \E opens \in BOOLEAN :
        IF opens
        THEN /\ files' = Append(files, "ok")
             /\ pc' = "calendar"
             /\ error' = error
        ELSE /\ files' = Append(files, "unopenable")
             /\ pc' = "failed"
             /\ error' = "FileOpenFailure"
    /\ calendars' = 0
    /\ UNCHANGED <<args, now, nread, event, parsed, events, current, grid, candidates,
                   output, message>>

\* Lines 78-79: the parser yields the next calendar, an error, or nothing more.
NextCalendar ==
    /\ pc = "calendar"
    /\ \/ /\ calendars < MaxCalendars
          /\ calendars' = calendars + 1
          /\ pc' = "event"
          /\ UNCHANGED <<files, error>>
       \/ /\ files' = [files EXCEPT ![Len(files)] = "malformed"]
          /\ pc' = "failed"
          /\ error' = "CalendarParseFailure"
          /\ UNCHANGED calendars
       \/ /\ pc' = "open"
          /\ calendars' = 0
          /\ UNCHANGED <<files, error>>
    /\ UNCHANGED <<args, now, nread, event, parsed, events, current, grid, candidates,
                   output, message>>

\* Lines 82-90: the two timestamps of an event, parsed when both are present.
ParseBoth(e) ==
    IF e.dtstart.some /\ e.dtend.some
    THEN <<parse_ics_datetime(e.dtstart.val), parse_ics_datetime(e.dtend.val)>>
    ELSE <<None, None>>

\* ParseBoth, tabulated over the events of the model.
ParsedSamples == [e \in EventSamples |-> ParseBoth(e)]
Timestamps(e) == ParsedSamples[e]

\* Line 92: an event that ends before the search starts is skipped.
Relevant(end_dt) == end_dt >= start_search

\* Lines 89-96: the collected intervals after event e.
Collect(evs, e) ==
    LET ts == Timestamps(e)
    IN  IF ts[1].some /\ ts[2].some /\ Relevant(ts[2].val)
        THEN Append(evs, <<ts[1].val, ts[2].val>>)
        ELSE evs

\* Line 90 panics when either timestamp is sliced inside a character.
Panics(e) == IsPanic(Timestamps(e)[1]) \/ IsPanic(Timestamps(e)[2])

\* Every interval that line 90 parsed, kept or not.
Parsed(ps, e) ==
    LET ts == Timestamps(e)
    IN  IF ts[1].some /\ ts[2].some THEN Append(ps, <<ts[1].val, ts[2].val>>) ELSE ps

\* Lines 80-97: the next event of the calendar.
NextEvent ==
    /\ pc = "event"
    /\ nread < MaxEvents
    /\ \E e \in EventSamples :
        /\ event' = Some(e)
        /\ IF Panics(e)
           THEN /\ pc' = "panicked"
                /\ error' = "panic"
                /\ UNCHANGED <<events, parsed>>
           ELSE /\ events' = Collect(events, e)
                /\ parsed' = Parsed(parsed, e)
                /\ UNCHANGED <<pc, error>>
    /\ nread' = nread + 1
    /\ UNCHANGED <<args, now, files, calendars, current, grid, candidates, output, message>>

\* Line 97: the calendar has no more events.
EndEvents ==
    /\ pc = "event"
    /\ pc' = "calendar"
    /\ event' = None
    /\ UNCHANGED <<args, now, files, calendars, nread, parsed, events, current, grid,
                   candidates, output, message, error>>

\* Line 105: the first slot, on the day of start_search.
FirstSlot == AndHmsOr(DateOf(start_search), args.start_hour, 0, 0, now)

\* Lines 99-105: all files are read; the slot loop is set up.
StartSlots ==
    /\ pc = "open"
    /\ Len(files) = args.ics_files
    /\ current' = FirstSlot
    /\ pc' = "slots"
    /\ UNCHANGED <<args, now, files, calendars, nread, event, parsed, events, grid,
                   candidates, output, message, error>>

\* HasConflict with closed intervals: a slot that touches a widened event conflicts.
HasConflictClosed(evs, buffer_mins, slot) ==
    LET slot_end == slot + slot_duration
    IN  \E i \in 1..Len(evs) :
            LET buffer_start == evs[i][1] - buffer_mins * SecsPerMin
                buffer_end == evs[i][2] + buffer_mins * SecsPerMin
            IN  slot <= buffer_end /\ slot_end >= buffer_start

\* Lines 110-114: the slot [slot, slot + 30m) against the widened events.
HasConflict(evs, buffer_mins, slot) ==
    LET slot_end == slot + slot_duration
    IN  \E i \in 1..Len(evs) :
            LET buffer_start == evs[i][1] - buffer_mins * SecsPerMin
                buffer_end == evs[i][2] + buffer_mins * SecsPerMin
            IN  slot < buffer_end /\ slot_end > buffer_start

\* Score that tests the hour in UTC, whatever the timezone.
ScoreUtc(zone, slot) ==
    IF LocalHour("UTC", slot) >= MorningFrom /\ LocalHour("UTC", slot) < MorningTo THEN 1 ELSE 0

\* Lines 118-120.
Score(zone, slot) ==
    IF LocalHour(zone, slot) >= MorningFrom /\ LocalHour(zone, slot) < MorningTo THEN 1 ELSE 0

\* Line 106.
InWindow(slot) == slot <= end_search

\* NextSlot that leaves a day at its end hour and resumes at the next day's start hour.
NextSlotClamped(slot) ==
    IF ((slot + slot_duration) % SecsPerDay) \div SecsPerHour > args.end_hour
    THEN (DateOf(slot) + 1) * SecsPerDay + args.start_hour * SecsPerHour
    ELSE slot + slot_duration

\* Line 124.
NextSlot(slot) == slot + slot_duration

\* Lines 106-125: one turn of the while loop.
SlotStep ==
    /\ pc = "slots"
    /\ InWindow(current)
    /\ grid' = Append(grid, current)
    /\ candidates' = IF HasConflict(events, args.buffer_mins, current)
                     THEN candidates
                     ELSE Append(candidates, <<current, Score(args.timezone, current)>>)
    /\ current' = NextSlot(current)
    /\ UNCHANGED <<pc, args, now, files, calendars, nread, event, parsed, events, output,
                   message, error>>

\* Compare with the scores the wrong way round: a.1.cmp(&b.1).
CompareScoreAscending(a, b) ==
    IF a[2] < b[2] THEN -1
    ELSE IF a[2] > b[2] THEN 1
    ELSE IF a[1] < b[1] THEN -1
    ELSE IF a[1] > b[1] THEN 1
    ELSE 0

\* Compare by time alone.
CompareTimeOnly(a, b) ==
    IF a[1] < b[1] THEN -1
    ELSE IF a[1] > b[1] THEN 1
    ELSE 0

\* Line 129: b.1.cmp(&a.1).then(a.0.cmp(&b.0)), as -1 (Less), 0 (Equal), 1 (Greater).
Compare(a, b) ==
    IF b[2] < a[2] THEN -1
    ELSE IF b[2] > a[2] THEN 1
    ELSE IF a[1] < b[1] THEN -1
    ELSE IF a[1] > b[1] THEN 1
    ELSE 0

\* Where a stable sort puts s[i]: after every element that compares Less than
\* it, and after every earlier element that compares Equal.
SortedIndex(s, i) ==
    1 + Cardinality({j \in 1..Len(s) :
                        \/ Compare(s[j], s[i]) = -1
                        \/ Compare(s[j], s[i]) = 0 /\ j < i})

\* slice::sort_by with the comparison of line 129.
SortBy(s) == [k \in 1..Len(s) |-> s[CHOOSE i \in 1..Len(s) : SortedIndex(s, i) = k]]

\* Lines 106 and 127-130: the loop is left and the candidates are sorted.
SortCandidates ==
    /\ pc = "slots"
    /\ ~InWindow(current)
    /\ candidates' = SortBy(candidates)
    /\ pc' = "render"
    /\ UNCHANGED <<args, now, files, calendars, nread, event, parsed, events, current, grid,
                   output, message, error>>

\* Iterator::take(n).
Take(s, n) == SubSeq(s, 1, IF Len(s) < n THEN Len(s) ELSE n)

\* Lines 150-162: one row of the table.
Row(c) ==
    [slot |-> c[1], local |-> c[1] + UtcOffset(args.timezone, c[1]), peak |-> c[2] = 1,
     score |-> c[2]]

\* Lines 133-170.
Render ==
    /\ pc = "render"
    /\ IF candidates = <<>>
       THEN /\ message' = "none"
            /\ output' = <<>>
       ELSE /\ message' = "table"
            /\ output' = [i \in 1..Len(Take(candidates, TopN)) |-> Row(candidates[i])]
    /\ pc' = "done"
    /\ UNCHANGED <<args, now, files, calendars, nread, event, parsed, events, current, grid,
                   candidates, error>>

Next ==
    \/ ParseTimezone
    \/ OpenFile
    \/ NextCalendar
    \/ NextEvent
    \/ EndEvents
    \/ StartSlots
    \/ SlotStep
    \/ SortCandidates
    \/ Render

Spec == Init /\ [][Next]_vars

\* ------------------------------------------------------------------ claims

Finished == pc \in {"render", "done"}

\* A slot against a busy interval widened by the buffer, half-open.
OverlapsWidened(slot, ev) ==
    /\ slot < ev[2] + args.buffer_mins * SecsPerMin
    /\ slot + SlotMinutes * SecsPerMin > ev[1] - args.buffer_mins * SecsPerMin

\* A slot against the busy interval itself.
OverlapsBare(slot, ev) == slot < ev[2] /\ slot + SlotMinutes * SecsPerMin > ev[1]

CandidateSlots == {candidates[i][1] : i \in 1..Len(candidates)}
OutputSlots == {output[i].slot : i \in 1..Len(output)}
GridSlots == {grid[k] : k \in 1..Len(grid)}

\* C1: a slot of the grid is kept as a free candidate if and only if no
\* collected busy interval, widened by the buffer on both ends, overlaps it
\* under the half-open test (slotStart < bufferedEnd and slotEnd > bufferedStart).
C1_FreeIffNoOverlap ==
    \A slot \in GridSlots :
        slot \in CandidateSlots <=> ~\E i \in 1..Len(events) : OverlapsWidened(slot, events[i])

\* C1's case: with a buffer, one slot starts where a widened interval ends and
\* is free, and another overlaps only the buffer of that interval and is not.
C1_Witness ==
    /\ pc = "done"
    /\ args.buffer_mins > 0
    /\ \E i \in 1..Len(events) : \E touching, buffered \in GridSlots :
        /\ touching = events[i][2] + args.buffer_mins * SecsPerMin
        /\ touching \in CandidateSlots
        /\ ~OverlapsBare(buffered, events[i])
        /\ OverlapsWidened(buffered, events[i])
        /\ buffered \notin CandidateSlots

\* C2: every event with a recognised start and end, from whichever file, keeps
\* every grid slot its widened interval overlaps out of the candidates and out
\* of the output, whatever `now` is.
C2_UnionBlocks ==
    Finished =>
        \A slot \in GridSlots : \A i \in 1..Len(parsed) :
            OverlapsWidened(slot, parsed[i]) =>
                slot \notin CandidateSlots /\ slot \notin OutputSlots

\* Row a of the ranking comes before row b: a higher score, or the same score
\* and an earlier start.
RanksBefore(aslot, ascore, bslot, bscore) ==
    ascore > bscore \/ (ascore = bscore /\ aslot < bslot)

\* C3: the output is the first min(5, n) of the n free candidates in the order
\* (score descending, start ascending): its rows are strictly ordered, no
\* candidate left out ranks before a row, and with n = 0 the run ends well with
\* the no-candidates message.
C3_TopFive ==
    pc = "done" =>
        /\ error = ""
        /\ message = (IF Len(candidates) = 0 THEN "none" ELSE "table")
        /\ Len(output) = (IF Len(candidates) < 5 THEN Len(candidates) ELSE 5)
        /\ Cardinality(CandidateSlots) = Len(candidates)
        /\ \A i \in 1..Len(output) :
            \E k \in 1..Len(candidates) : candidates[k] = <<output[i].slot, output[i].score>>
        /\ \A i, j \in 1..Len(output) :
            i < j => RanksBefore(output[i].slot, output[i].score, output[j].slot, output[j].score)
        /\ \A k \in 1..Len(candidates) : \A i \in 1..Len(output) :
            candidates[k][1] \notin OutputSlots =>
                ~RanksBefore(candidates[k][1], candidates[k][2], output[i].slot, output[i].score)

\* C3's case: more than five candidates, and rows of both scores in the output.
C3_Witness ==
    /\ pc = "done"
    /\ Len(candidates) > 5
    /\ \E i, j \in 1..Len(output) : output[i].score = 1 /\ output[j].score = 0

\* The hour of the day of instant t, shifted by the timezone's offset at t.
HourIn(zone, t) == ((t + UtcOffset(zone, t)) % (24 * 3600)) \div 3600

\* C4: every row of the output has score 1 if the hour of its start in the
\* configured timezone is 9, 10 or 11, and score 0 otherwise.
C4_MorningScore ==
    \A i \in 1..Len(output) :
        /\ output[i].score \in {0, 1}
        /\ output[i].score = 1 <=> HourIn(args.timezone, output[i].slot) \in 9..11

\* C4's case: a timezone other than UTC, and a row scored 1 whose UTC hour is
\* no morning hour.
C4_Witness ==
    /\ pc = "done"
    /\ args.timezone # "UTC"
    /\ \E i \in 1..Len(output) :
        /\ output[i].score = 1
        /\ HourIn("UTC", output[i].slot) \notin 9..11

\* C5: every generated slot starts at least 24 hours after `now`.
C5_FullDayAhead == \A slot \in GridSlots : slot >= now + 24 * 3600

ValidHours == args.start_hour < 24 /\ args.end_hour < 24

\* The first search day at dayStartHour:00:00.
GridStart == ((now + 24 * 3600) \div (24 * 3600)) * (24 * 3600) + args.start_hour * 3600

\* The last search day at dayEndHour:59:59.
WindowEnd ==
    ((now + 24 * 3600 + args.days_ahead * 24 * 3600) \div (24 * 3600)) * (24 * 3600)
        + args.end_hour * 3600 + 59 * 60 + 59

\* C6: for hours of the day, the grid is the progression gridStart,
\* gridStart + 30m, ... of exactly the instants that are <= windowEnd; it is not
\* cut at the end hour of an intermediate day, and it is empty only if
\* gridStart is after windowEnd.
C6_SingleProgression ==
    ValidHours =>
        /\ \A k \in 1..Len(grid) :
            grid[k] = GridStart + (k - 1) * 30 * 60 /\ grid[k] <= WindowEnd
        /\ Finished => GridStart + Len(grid) * 30 * 60 > WindowEnd
        /\ Finished /\ grid = <<>> => GridStart > WindowEnd

\* C6's case: a window of two days whose first day has slots after its end hour.
C6_Witness ==
    /\ pc = "done"
    /\ ValidHours
    /\ args.days_ahead > 0
    /\ \E slot \in GridSlots :
        /\ slot \div (24 * 3600) = GridStart \div (24 * 3600)
        /\ (slot % (24 * 3600)) \div 3600 > args.end_hour

IsMorning(slot) == HourIn(args.timezone, slot) \in 9..11
IsOther(slot) == ~IsMorning(slot)

\* The first n elements of s, or all of s.
FirstN(s, n) == [k \in 1..(IF Len(s) < n THEN Len(s) ELSE n) |-> s[k]]

OutputStarts == [i \in 1..Len(output) |-> output[i].slot]

\* A morning slot on the day of the first slot of the grid.
MorningOnFirstDay ==
    \E slot \in GridSlots : IsMorning(slot) /\ slot \div (24 * 3600) = grid[1] \div (24 * 3600)

\* C7 as claimed: with no events every grid slot is a candidate, and the output
\* is the five earliest morning slots if the first search day has a morning
\* slot, and the five earliest slots of the grid otherwise.
C7_AsClaimed ==
    pc = "done" /\ nread = 0 =>
        /\ CandidateSlots = GridSlots
        /\ OutputStarts = (IF MorningOnFirstDay
                           THEN FirstN(SelectSeq(grid, IsMorning), 5)
                           ELSE FirstN(grid, 5))

\* C7 as amended: with no events every grid slot is a candidate, and the output
\* is the first five of: the morning slots of the whole grid, earliest first,
\* followed by the other slots, earliest first.
C7_NoEvents ==
    pc = "done" /\ nread = 0 =>
        /\ CandidateSlots = GridSlots
        /\ Len(candidates) = Len(grid)
        /\ OutputStarts = FirstN(SelectSeq(grid, IsMorning) \o SelectSeq(grid, IsOther), 5)

\* C7's case: no events, no morning slot on the first day of the grid, and yet
\* a morning slot of a later day at the head of the output.
C7_Witness ==
    /\ pc = "done"
    /\ nread = 0
    /\ grid # <<>>
    /\ ~MorningOnFirstDay
    /\ output[1].score = 1

\* C8: an invalid timezone ends the run before any file is opened; a file that
\* cannot be opened or parsed ends it before any later file is read; and a run
\* that failed has generated no slot and printed nothing.
C8_FailStop ==
    /\ args.timezone \notin KnownTimezones =>
        /\ files = <<>>
        /\ pc \in {"tz", "failed"}
        /\ pc = "failed" => error = "InvalidTimezone"
    /\ \A i \in 1..Len(files) :
        files[i] # "ok" =>
            /\ i = Len(files)
            /\ pc = "failed"
            /\ error = (IF files[i] = "unopenable" THEN "FileOpenFailure" ELSE "CalendarParseFailure")
    /\ pc = "failed" =>
        grid = <<>> /\ candidates = <<>> /\ output = <<>> /\ message = ""

\* C8's case: a calendar fails to parse after events were collected, with a
\* file still unread.
C8_Witness ==
    /\ pc = "failed"
    /\ error = "CalendarParseFailure"
    /\ events # <<>>
    /\ Len(files) < args.ics_files

\* A timestamp in the fully-qualified UTC form: eight digits, T, six digits, Z.
InUtcForm(p) ==
    /\ p.some
    /\ Len(p.val) = 16
    /\ \A k \in 1..16 :
        IF k = 9 THEN p.val[k] = "T"
        ELSE IF k = 16 THEN p.val[k] = "Z"
        ELSE \E n \in 1..10 : Digits[n] = p.val[k]

\* C9: reading an event that lacks a start or an end, or whose start or end is
\* not in the UTC form, adds no busy interval and raises no error: the run goes
\* on to the next event.
C9_SilentSkip ==
    [][(nread' = nread + 1 /\ ~(InUtcForm(event'.val.dtstart) /\ InUtcForm(event'.val.dtend)))
        => (events' = events /\ pc' = "event" /\ error' = "")]_vars

\* C10: every collected busy interval has its start before its end.
C10_StartBeforeEnd == \A i \in 1..Len(events) : events[i][1] < events[i][2]

====
